---- MODULE Spec2Model ----
(***************************************************************************)
(* Model of src/data_processing/loader.py: the two single-file extractors  *)
(* load_pdf_document and load_text_document, and the directory aggregator  *)
(* load_documents.  One call is executed step by step; the file system is  *)
(* the input of the call.                                                  *)
(***************************************************************************)
EXTENDS Integers, Sequences, FiniteSets, TLC

\* ---------------------------------------------------------------- bounds
MaxPages == 3
MaxPageLen == 1
MaxFileLen == 3
MaxEntries == 3

\* ------------------------------------------------------------ characters
\* Characters are one-element tokens; a text is a sequence of them.
SP == " "
CR == "CR"
LF == "LF"
PageChars == {SP, "a"}
FileChars == {SP, CR, LF, "a"}

SeqsUpTo(S, n) == UNION {[1..k -> S] : k \in 0..n}

\* str.strip() with no argument removes leading and trailing whitespace.
IsSpace(c) == c \in {SP, CR, LF}

RECURSIVE LStrip(_)
LStrip(s) == IF s = <<>> THEN <<>>
             ELSE IF IsSpace(Head(s)) THEN LStrip(Tail(s)) ELSE s

RECURSIVE RStrip(_)
RStrip(s) == IF s = <<>> THEN <<>>
             ELSE IF IsSpace(s[Len(s)]) THEN RStrip(SubSeq(s, 1, Len(s) - 1)) ELSE s

Strip(s) == LStrip(RStrip(s))

\* open(path, "r") reads in universal-newlines mode: "\r\n" and a lone
\* "\r" both arrive in the program as "\n".
RECURSIVE ReadText(_)
ReadText(s) ==
    IF s = <<>> THEN <<>>
    ELSE IF Head(s) = CR
         THEN IF Len(s) >= 2 /\ s[2] = LF
              THEN <<LF>> \o ReadText(SubSeq(s, 3, Len(s)))
              ELSE <<LF>> \o ReadText(Tail(s))
         ELSE <<Head(s)>> \o ReadText(Tail(s))

\* str.lower() on the characters that occur in the suffixes of the model.
LowerChar(c) == CASE c = "P" -> "p" [] c = "D" -> "d" [] c = "F" -> "f"
                  [] c = "T" -> "t" [] c = "X" -> "x" [] OTHER -> c

Lower(s) == [i \in DOMAIN s |-> LowerChar(s[i])]

PDF_EXT == <<".", "p", "d", "f">>
TXT_EXT == <<".", "t", "x", "t">>
PDF_UPPER == <<".", "P", "D", "F">>
TXT_MIXED == <<".", "T", "x", "t">>
DOCX_EXT == <<".", "d", "o", "c", "x">>
NO_EXT == <<>>

Exts == {PDF_EXT, PDF_UPPER, TXT_EXT, TXT_MIXED, DOCX_EXT, NO_EXT}

\* LOADER_MAPPING: the registered suffixes and the extractor of each.
LOADER_MAPPING == [e \in {PDF_EXT, TXT_EXT} |-> IF e = PDF_EXT THEN "pdf" ELSE "txt"]

\* ------------------------------------------------------------ exceptions
\* Python's exception classes that the code raises or meets, with their
\* base class; `except C` matches an instance of C or of a subclass of C.
Base(c) == CASE c = "FileNotFoundError" -> "OSError"
             [] c = "PermissionError" -> "OSError"
             [] c = "OSError" -> "Exception"
             [] c = "UnicodeDecodeError" -> "UnicodeError"
             [] c = "UnicodeError" -> "ValueError"
             [] c = "ValueError" -> "Exception"
             [] c = "FileDataError" -> "RuntimeError"
             [] c = "RuntimeError" -> "Exception"
             [] OTHER -> "Exception"

RECURSIVE IsInstance(_, _)
IsInstance(e, c) == IF e = c THEN TRUE
                    ELSE IF e = "Exception" THEN FALSE
                    ELSE IsInstance(Base(e), c)

\* The error kind a caller sees, by the order of its except clauses.
KindOf(e) == IF IsInstance(e, "FileNotFoundError") THEN "NotFound"
             ELSE IF IsInstance(e, "ValueError") THEN "InvalidInput"
             ELSE "ParseFailure"

\* ----------------------------------------------------------- file system
\* What a file holds, as the parser of its format sees it.
NoData == [fmt |-> "none", pages |-> <<>>, chars |-> <<>>]

FailPage == [ok |-> FALSE, text |-> <<>>]
Pages(maxLen) == {[ok |-> TRUE, text |-> t] : t \in SeqsUpTo(PageChars, maxLen)} \cup {FailPage}

PdfDatas(maxPages, maxLen) ==
    {[fmt |-> "pdf", pages |-> ps, chars |-> <<>>] : ps \in SeqsUpTo(Pages(maxLen), maxPages)}
    \cup {[fmt |-> "corrupt", pages |-> <<>>, chars |-> <<>>]}

TxtDatas(maxLen) ==
    {[fmt |-> "text", pages |-> <<>>, chars |-> cs] : cs \in SeqsUpTo(FileChars, maxLen)}
    \cup {[fmt |-> "undecodable", pages |-> <<>>, chars |-> <<>>],
          [fmt |-> "unreadable", pages |-> <<>>, chars |-> <<>>]}

DatasFor(ext, pdfs, txts) == IF Lower(ext) = PDF_EXT THEN pdfs
                             ELSE IF Lower(ext) = TXT_EXT THEN txts
                             ELSE {NoData}

\* The paths a caller may pass to a single-file extractor.
Paths ==
    {[kind |-> k, stem |-> 0, ext |-> e, data |-> NoData] : k \in {"missing", "dir"}, e \in Exts}
    \cup UNION {{[kind |-> "file", stem |-> 0, ext |-> e, data |-> d]
                   : d \in DatasFor(e, PdfDatas(MaxPages, MaxPageLen), TxtDatas(MaxFileLen))}
                : e \in Exts}

Page(t) == [ok |-> TRUE, text |-> t]
Pdf(ps) == [fmt |-> "pdf", pages |-> ps, chars |-> <<>>]
Txt(cs) == [fmt |-> "text", pages |-> <<>>, chars |-> cs]

\* The entries a scanned directory may hold.
DirPdfDatas == {Pdf(<<Page(<<"a">>), Page(<<"a", SP>>)>>),
                Pdf(<<Page(<<SP>>), Page(<<"a">>)>>),
                Pdf(<<Page(<<"a">>), FailPage>>),
                [fmt |-> "corrupt", pages |-> <<>>, chars |-> <<>>]}
DirTxtDatas == {Txt(<<"a", CR>>), Txt(<<SP, LF>>),
                [fmt |-> "undecodable", pages |-> <<>>, chars |-> <<>>]}

DirShapes ==
    {[kind |-> "dir", stem |-> 0, ext |-> PDF_EXT, data |-> NoData],
     [kind |-> "file", stem |-> 0, ext |-> DOCX_EXT, data |-> NoData]}
    \cup {[kind |-> "file", stem |-> 0, ext |-> PDF_UPPER, data |-> d] : d \in DirPdfDatas}
    \cup {[kind |-> "file", stem |-> 0, ext |-> TXT_EXT, data |-> d] : d \in DirTxtDatas}

\* Entries of one directory have distinct names: the stem is the position.
Listing(shapes) == [i \in DOMAIN shapes |-> [shapes[i] EXCEPT !.stem = i]]

Listings == {Listing(s) : s \in SeqsUpTo(DirShapes, MaxEntries)}

DirArgs == {[kind |-> k, stem |-> 0, ext |-> e, data |-> NoData]
              : k \in {"missing", "dir", "file"}, e \in {NO_EXT, TXT_EXT}}

\* path.name
Name(p) == [stem |-> p.stem, ext |-> p.ext]
\* path.suffix
Suffix(p) == p.ext
Exists(p) == p.kind # "missing"
IsFile(p) == p.kind = "file"
IsDir(p) == p.kind = "dir"

\* ----------------------------------------------------------------- state
VARIABLES
    pc,             \* the statement the running call is at
    op,             \* the entry point the caller invoked
    arg,            \* the path the caller passed
    children,       \* what source_path.iterdir() yields, in its order
    idx,            \* entries of children already taken by the for loop
    all_documents,  \* load_documents: the running result
    cur,            \* the path the running extractor was called with
    caller,         \* who called the extractor: "top" or "dir"
    documents,      \* load_pdf_document: the units collected so far
    page_num,       \* load_pdf_document: pages already enumerated
    text,           \* load_text_document: what f.read() returned
    exc,            \* the exception in flight inside the call
    loaded_docs,    \* load_documents: what the extractor returned
    result,         \* how the call of the entry point ended
    log,            \* the lines printed
    opened,         \* names of the files opened, in order
    handles         \* names of the files whose handle is open

vars == <<pc, op, arg, children, idx, all_documents, cur, caller, documents,
          page_num, text, exc, loaded_docs, result, log, opened, handles>>

NoPath == [kind |-> "missing", stem |-> 0, ext |-> NO_EXT, data |-> NoData]
NoResult == [status |-> "none", value |-> <<>>, exc |-> "none"]
Returned(v) == [status |-> "returned", value |-> v, exc |-> "none"]
Raised(e) == [status |-> "raised", value |-> <<>>, exc |-> e]

Line(msg, name, cause) == [msg |-> msg, name |-> name, cause |-> cause]

Init ==
    /\ pc = "idle"
    /\ op = "none"
    /\ arg = NoPath
    /\ children = <<>>
    /\ idx = 0
    /\ all_documents = <<>>
    /\ cur = NoPath
    /\ caller = "top"
    /\ documents = <<>>
    /\ page_num = 0
    /\ text = <<>>
    /\ exc = "none"
    /\ loaded_docs = <<>>
    /\ result = NoResult
    /\ log = <<>>
    /\ opened = <<>>
    /\ handles = {}

\* --------------------------------------------------- pieces of the code
\* The guards in the other order: the suffix before existence and type.
PreCheck_SuffixFirst(p, want) ==
    IF Lower(Suffix(p)) # want THEN "ValueError"
    ELSE IF ~Exists(p) \/ ~IsFile(p) THEN "FileNotFoundError"
    ELSE "ok"

\* The two guards at the head of an extractor: existence and type first,
\* then the lower-cased suffix.
PreCheck(p, want) ==
    IF ~Exists(p) \/ ~IsFile(p) THEN "FileNotFoundError"
    ELSE IF Lower(Suffix(p)) # want THEN "ValueError"
    ELSE "ok"

\* `if text:`, the test without the trim.
HasText_NoStrip(t) == t # <<>>

\* `if text.strip():`
HasText(t) == Strip(t) # <<>>

\* The unit with the internal 0-based index as its page.
PdfUnit_ZeroBased(p, n, t) == [text |-> t, meta |-> [source |-> Name(p), page |-> n]]

\* (text, {"source": str(path.name), "page": page_num + 1})
PdfUnit(p, n, t) == [text |-> t, meta |-> [source |-> Name(p), page |-> n + 1]]

\* The unit with the trimmed text.
TxtUnit_Trimmed(p, t) == [text |-> Strip(t), meta |-> [source |-> Name(p)]]

\* (text, {"source": str(path.name)})
TxtUnit(p, t) == [text |-> t, meta |-> [source |-> Name(p)]]

\* The new units put in front of the aggregated ones.
Extend_Prepend(all, loaded) == loaded \o all

\* all_documents.extend(loaded_docs)
Extend(all, loaded) == all \o loaded

\* `ext in LOADER_MAPPING` with ext = file_path.suffix.lower()
Registered(p) == Lower(Suffix(p)) \in DOMAIN LOADER_MAPPING

\* An extractor leaves by raising e: to the caller of the entry point, or
\* into the try block of load_documents.
ExtractorRaise(e) ==
    IF caller = "top"
    THEN /\ pc' = "done"
         /\ result' = Raised(e)
         /\ exc' = "none"
    ELSE /\ pc' = "dir_catch"
         /\ exc' = e
         /\ UNCHANGED result

\* An extractor leaves by returning v.
ExtractorReturn(v) ==
    IF caller = "top"
    THEN /\ pc' = "done"
         /\ result' = Returned(v)
         /\ UNCHANGED loaded_docs
    ELSE /\ pc' = "dir_extend"
         /\ loaded_docs' = v
         /\ UNCHANGED result

\* ---------------------------------------------------- load_pdf_document
LoadPdfDocument ==
    /\ pc = "idle"
    /\ \E p \in Paths : arg' = p /\ cur' = p
    /\ pc' = "pdf_check"
    /\ op' = "pdf"
    /\ caller' = "top"
    /\ UNCHANGED <<children, idx, all_documents, documents, page_num, text, exc,
                   loaded_docs, result, log, opened, handles>>

PdfCheck ==
    /\ pc = "pdf_check"
    /\ LET r == PreCheck(cur, PDF_EXT) IN
         IF r = "ok"
         THEN /\ pc' = "pdf_open"
              /\ documents' = <<>>
              /\ UNCHANGED <<result, exc>>
         ELSE /\ ExtractorRaise(r)
              /\ UNCHANGED documents
    /\ UNCHANGED <<op, arg, children, idx, all_documents, cur, caller, page_num,
                   text, loaded_docs, log, opened, handles>>

\* doc = fitz.open(path)
PdfOpen ==
    /\ pc = "pdf_open"
    /\ IF cur.data.fmt = "pdf"
       THEN /\ pc' = "pdf_loop"
            /\ page_num' = 0
            /\ opened' = Append(opened, Name(cur))
            /\ handles' = handles \cup {Name(cur)}
            /\ UNCHANGED exc
       ELSE /\ pc' = "pdf_except"
            /\ exc' = "FileDataError"
            /\ UNCHANGED <<page_num, opened, handles>>
    /\ UNCHANGED <<op, arg, children, idx, all_documents, cur, caller, documents,
                   text, loaded_docs, result, log>>

\* One iteration of `for page_num, page in enumerate(doc)`.
PdfPage ==
    /\ pc = "pdf_loop"
    /\ page_num < Len(cur.data.pages)
    /\ LET page == cur.data.pages[page_num + 1] IN
         IF page.ok
         THEN /\ documents' = IF HasText(page.text)
                              THEN Append(documents, PdfUnit(cur, page_num, page.text))
                              ELSE documents
              /\ page_num' = page_num + 1
              /\ UNCHANGED <<pc, exc>>
         ELSE /\ pc' = "pdf_except"
              /\ exc' = "RuntimeError"
              /\ UNCHANGED <<documents, page_num>>
    /\ UNCHANGED <<op, arg, children, idx, all_documents, cur, caller, text,
                   loaded_docs, result, log, opened, handles>>

\* doc.close(), reached when the loop is exhausted.
PdfClose ==
    /\ pc = "pdf_loop"
    /\ page_num = Len(cur.data.pages)
    /\ pc' = "pdf_return"
    /\ handles' = handles \ {Name(cur)}
    /\ UNCHANGED <<op, arg, children, idx, all_documents, cur, caller, documents,
                   page_num, text, exc, loaded_docs, result, log, opened>>

\* The handler returning the partial data instead of re-raising.
PdfExcept_ReturnPartial ==
    /\ pc = "pdf_except"
    /\ log' = Append(log, Line("Error processing PDF", Name(cur), exc))
    /\ ExtractorReturn(documents)
    /\ exc' = "none"
    /\ UNCHANGED <<op, arg, children, idx, all_documents, cur, caller, documents,
                   page_num, text, opened, handles>>

\* except Exception as e: print(...); raise
PdfExcept ==
    /\ pc = "pdf_except"
    /\ log' = Append(log, Line("Error processing PDF", Name(cur), exc))
    /\ ExtractorRaise(exc)
    /\ UNCHANGED <<op, arg, children, idx, all_documents, cur, caller, documents,
                   page_num, text, loaded_docs, opened, handles>>

\* return documents
PdfReturn ==
    /\ pc = "pdf_return"
    /\ ExtractorReturn(documents)
    /\ UNCHANGED <<op, arg, children, idx, all_documents, cur, caller, documents,
                   page_num, text, exc, log, opened, handles>>

\* --------------------------------------------------- load_text_document
LoadTextDocument ==
    /\ pc = "idle"
    /\ \E p \in Paths : arg' = p /\ cur' = p
    /\ pc' = "txt_check"
    /\ op' = "txt"
    /\ caller' = "top"
    /\ UNCHANGED <<children, idx, all_documents, documents, page_num, text, exc,
                   loaded_docs, result, log, opened, handles>>

TxtCheck ==
    /\ pc = "txt_check"
    /\ LET r == PreCheck(cur, TXT_EXT) IN
         IF r = "ok"
         THEN /\ pc' = "txt_open"
              /\ UNCHANGED <<result, exc>>
         ELSE ExtractorRaise(r)
    /\ UNCHANGED <<op, arg, children, idx, all_documents, cur, caller, documents,
                   page_num, text, loaded_docs, log, opened, handles>>

\* with open(path, "r", encoding="utf-8") as f:
TxtOpen ==
    /\ pc = "txt_open"
    /\ IF cur.data.fmt = "unreadable"
       THEN /\ pc' = "txt_except"
            /\ exc' = "PermissionError"
            /\ UNCHANGED <<opened, handles>>
       ELSE /\ pc' = "txt_read"
            /\ opened' = Append(opened, Name(cur))
            /\ handles' = handles \cup {Name(cur)}
            /\ UNCHANGED exc
    /\ UNCHANGED <<op, arg, children, idx, all_documents, cur, caller, documents,
                   page_num, text, loaded_docs, result, log>>

\* text = f.read(), and the exit of the with block, which closes f whether
\* or not read() raised.
TxtRead ==
    /\ pc = "txt_read"
    /\ handles' = handles \ {Name(cur)}
    /\ IF cur.data.fmt = "text"
       THEN /\ text' = ReadText(cur.data.chars)
            /\ pc' = "txt_return"
            /\ UNCHANGED exc
       ELSE /\ pc' = "txt_except"
            /\ exc' = "UnicodeDecodeError"
            /\ UNCHANGED text
    /\ UNCHANGED <<op, arg, children, idx, all_documents, cur, caller, documents,
                   page_num, loaded_docs, result, log, opened>>

\* if text.strip(): return [(text, {...})]  else: return []
TxtReturn ==
    /\ pc = "txt_return"
    /\ ExtractorReturn(IF HasText(text) THEN <<TxtUnit(cur, text)>> ELSE <<>>)
    /\ UNCHANGED <<op, arg, children, idx, all_documents, cur, caller, documents,
                   page_num, text, exc, log, opened, handles>>

\* except Exception as e: print(...); raise
TxtExcept ==
    /\ pc = "txt_except"
    /\ log' = Append(log, Line("Error processing TXT file", Name(cur), exc))
    /\ ExtractorRaise(exc)
    /\ UNCHANGED <<op, arg, children, idx, all_documents, cur, caller, documents,
                   page_num, text, loaded_docs, opened, handles>>

\* -------------------------------------------------------- load_documents
LoadDocuments ==
    /\ pc = "idle"
    /\ \E d \in DirArgs : \E ls \in (IF IsDir(d) THEN Listings ELSE {<<>>}) :
          arg' = d /\ children' = ls
    /\ pc' = "dir_check"
    /\ op' = "dir"
    /\ UNCHANGED <<idx, all_documents, cur, caller, documents, page_num, text, exc,
                   loaded_docs, result, log, opened, handles>>

DirCheck ==
    /\ pc = "dir_check"
    /\ IF ~Exists(arg) \/ ~IsDir(arg)
       THEN /\ pc' = "done"
            /\ result' = Raised("FileNotFoundError")
            /\ UNCHANGED all_documents
       ELSE /\ pc' = "dir_iter"
            /\ all_documents' = <<>>
            /\ UNCHANGED result
    /\ UNCHANGED <<op, arg, children, idx, cur, caller, documents, page_num, text,
                   exc, loaded_docs, log, opened, handles>>

\* One iteration of `for file_path in source_path.iterdir()` up to the call
\* of the registered extractor.
DirNext ==
    /\ pc = "dir_iter"
    /\ idx < Len(children)
    /\ idx' = idx + 1
    /\ LET file_path == children[idx + 1] IN
         IF ~IsFile(file_path)
         THEN UNCHANGED <<pc, cur, caller, log>>
         ELSE IF Registered(file_path)
         THEN /\ log' = Append(log, Line("Loading document", Name(file_path), "none"))
              /\ cur' = file_path
              /\ caller' = "dir"
              /\ pc' = IF LOADER_MAPPING[Lower(Suffix(file_path))] = "pdf"
                       THEN "pdf_check" ELSE "txt_check"
         ELSE /\ log' = Append(log, Line("Skipping unsupported file type", Name(file_path), "none"))
              /\ UNCHANGED <<pc, cur, caller>>
    /\ UNCHANGED <<op, arg, children, all_documents, documents, page_num, text, exc,
                   loaded_docs, result, opened, handles>>

\* all_documents.extend(loaded_docs)
DirExtend ==
    /\ pc = "dir_extend"
    /\ all_documents' = Extend(all_documents, loaded_docs)
    /\ pc' = "dir_iter"
    /\ UNCHANGED <<op, arg, children, idx, cur, caller, documents, page_num, text,
                   exc, loaded_docs, result, log, opened, handles>>

\* The handler letting the extractor's exception leave load_documents.
DirCatch_Propagate ==
    /\ pc = "dir_catch"
    /\ result' = Raised(exc)
    /\ exc' = "none"
    /\ pc' = "done"
    /\ UNCHANGED <<op, arg, children, idx, all_documents, cur, caller, documents,
                   page_num, text, loaded_docs, log, opened, handles>>

\* except Exception as e: print(f"Failed to load ...")
DirCatch ==
    /\ pc = "dir_catch"
    /\ IsInstance(exc, "Exception")
    /\ log' = Append(log, Line("Failed to load", Name(cur), exc))
    /\ exc' = "none"
    /\ pc' = "dir_iter"
    /\ UNCHANGED <<op, arg, children, idx, all_documents, cur, caller, documents,
                   page_num, text, loaded_docs, result, opened, handles>>

\* The loop is exhausted: the notice for an empty result, and the return.
DirFinish ==
    /\ pc = "dir_iter"
    /\ idx = Len(children)
    /\ log' = IF all_documents = <<>>
              THEN Append(log, Line("No documents successfully loaded", Name(arg), "none"))
              ELSE log
    /\ result' = Returned(all_documents)
    /\ pc' = "done"
    /\ UNCHANGED <<op, arg, children, idx, all_documents, cur, caller, documents,
                   page_num, text, exc, loaded_docs, opened, handles>>

\* ----------------------------------------------------------------- spec
Next ==
    \/ LoadPdfDocument
    \/ PdfCheck
    \/ PdfOpen
    \/ PdfPage
    \/ PdfClose
    \/ PdfExcept
    \/ PdfReturn
    \/ LoadTextDocument
    \/ TxtCheck
    \/ TxtOpen
    \/ TxtRead
    \/ TxtReturn
    \/ TxtExcept
    \/ LoadDocuments
    \/ DirCheck
    \/ DirNext
    \/ DirExtend
    \/ DirCatch
    \/ DirFinish

Spec == Init /\ [][Next]_vars

TypeOK ==
    /\ pc \in {"idle", "pdf_check", "pdf_open", "pdf_loop", "pdf_except", "pdf_return",
               "txt_check", "txt_open", "txt_read", "txt_return", "txt_except",
               "dir_check", "dir_iter", "dir_extend", "dir_catch", "done"}
    /\ op \in {"none", "pdf", "txt", "dir"}
    /\ idx \in 0..Len(children)
    /\ result.status \in {"none", "returned", "raised"}

\* ------------------------------------------------------------ properties
Units(seq) == {seq[i] : i \in DOMAIN seq}

\* A text that still has a character after its whitespace is trimmed.
NonBlank(t) == \E i \in DOMAIN t : ~IsSpace(t[i])

Want == IF op = "pdf" THEN PDF_EXT ELSE TXT_EXT

Finished == pc = "done"

\* The units a directory entry is to contribute: none unless it is a regular
\* file with a registered suffix that its extractor reads to the end.
ExpectedOf(f) ==
    IF ~IsFile(f) THEN <<>>
    ELSE IF Lower(f.ext) = PDF_EXT
    THEN IF f.data.fmt = "pdf" /\ \A i \in DOMAIN f.data.pages : f.data.pages[i].ok
         THEN LET positions == [i \in DOMAIN f.data.pages |-> i]
                  kept == SelectSeq(positions, LAMBDA i : NonBlank(f.data.pages[i].text))
              IN [k \in DOMAIN kept |->
                    [text |-> f.data.pages[kept[k]].text,
                     meta |-> [source |-> Name(f), page |-> kept[k]]]]
         ELSE <<>>
    ELSE IF Lower(f.ext) = TXT_EXT
    THEN IF f.data.fmt = "text" /\ NonBlank(f.data.chars)
         THEN <<[text |-> ReadText(f.data.chars), meta |-> [source |-> Name(f)]]>>
         ELSE <<>>
    ELSE <<>>

RECURSIVE ExpectedUpTo(_, _)
ExpectedUpTo(fs, n) == IF n = 0 THEN <<>> ELSE ExpectedUpTo(fs, n - 1) \o ExpectedOf(fs[n])

\* A PDF file whose extraction fails: at fitz.open or at some page.
FailingPdf(f) ==
    /\ IsFile(f)
    /\ Lower(f.ext) = PDF_EXT
    /\ \/ f.data.fmt = "corrupt"
       \/ \E i \in DOMAIN f.data.pages : ~f.data.pages[i].ok

\* C1: load_documents, once its directory check has passed, never raises:
\* whatever the entries and whatever each extractor does, the call ends by
\* returning a sequence after every entry of the enumeration was taken.
C1_DirectoryNeverRaises ==
    (op = "dir" /\ IsDir(arg)) =>
        /\ result.status # "raised"
        /\ Finished => (result.status = "returned" /\ idx = Len(children))

\* A scan that met a failing file and an unregistered one and still
\* returned units of a later file.
C1_Witness ==
    /\ Finished /\ op = "dir" /\ result.status = "returned"
    /\ \E i \in DOMAIN log : log[i].msg = "Failed to load" /\ log[i].name.stem = 1
    /\ \E i \in DOMAIN log : log[i].msg = "Skipping unsupported file type"
    /\ \E u \in Units(result.value) : u.meta.source.stem = 3

\* C2: load_pdf_document releases the document handle on every exit path:
\* once the extractor has returned or raised, no handle is open.
C2_HandleReleasedOnExit ==
    (pc \in {"done", "dir_iter", "dir_extend", "dir_catch"}) => handles = {}

\* C3: every unit held or returned by any of the three entry points has a
\* text that is non-empty after trimming whitespace.
C3_NoBlankUnit ==
    \A u \in Units(documents) \cup Units(loaded_docs) \cup Units(all_documents)
             \cup Units(result.value) :
        NonBlank(u.text)

\* A PDF with a whitespace-only page was read and units were returned.
C3_Witness ==
    /\ Finished /\ op = "pdf" /\ result.status = "returned"
    /\ result.value # <<>>
    /\ \E i \in DOMAIN arg.data.pages :
          arg.data.pages[i].text # <<>> /\ ~NonBlank(arg.data.pages[i].text)

\* C4: for a PDF of N pages that parses without error, load_pdf_document
\* returns one unit per non-blank page, in document order, each carrying the
\* page's text and its original 1-based position; positions are not
\* renumbered when blank pages are skipped.
C4_PageNumbers ==
    (/\ Finished /\ op = "pdf" /\ PreCheck(arg, PDF_EXT) = "ok"
     /\ arg.data.fmt = "pdf"
     /\ \A i \in DOMAIN arg.data.pages : arg.data.pages[i].ok)
    =>
    LET pages == arg.data.pages
        v == result.value
        kept == {i \in DOMAIN pages : NonBlank(pages[i].text)}
    IN /\ result.status = "returned"
       /\ Len(v) = Cardinality(kept)
       /\ \A k \in DOMAIN v :
             /\ DOMAIN v[k].meta = {"source", "page"}
             /\ v[k].meta.source = Name(arg)
             /\ v[k].meta.page \in kept
             /\ v[k].text = pages[v[k].meta.page].text
       /\ \A k \in 1..(Len(v) - 1) : v[k].meta.page < v[k + 1].meta.page
       /\ (kept = DOMAIN pages) => \A k \in DOMAIN v : v[k].meta.page = k

\* Three pages with the second blank: units for pages 1 and 3.
C4_Witness ==
    /\ Finished /\ op = "pdf" /\ result.status = "returned"
    /\ Len(arg.data.pages) = 3
    /\ ~NonBlank(arg.data.pages[2].text)
    /\ Len(result.value) = 2
    /\ result.value[1].meta.page = 1
    /\ result.value[2].meta.page = 3

\* C5: what load_documents has aggregated after taking n entries is the
\* concatenation, in enumeration order, of what the registered extractor
\* returns for each of them; subdirectories, unregistered suffixes and
\* failing files contribute nothing, and the returned sequence is that
\* concatenation over the whole enumeration.
C5_ConcatenationInOrder ==
    (op = "dir" /\ IsDir(arg)) =>
        /\ pc = "dir_iter" => all_documents = ExpectedUpTo(children, idx)
        /\ Finished => result.value = ExpectedUpTo(children, Len(children))

\* A valid .txt, a valid two-page .pdf and a .docx give three units.
C5_Witness ==
    /\ Finished /\ op = "dir" /\ result.status = "returned"
    /\ Len(children) = 3
    /\ Lower(children[1].ext) = TXT_EXT
    /\ Lower(children[2].ext) = PDF_EXT
    /\ children[3].ext = DOCX_EXT
    /\ Len(result.value) = 3
    /\ result.value[1].meta.source.stem = 1
    /\ result.value[2].meta.page = 1
    /\ result.value[3].meta.page = 2

\* C6: a PDF failure yields no partial result: the extractor raises and
\* returns nothing whatever it had collected, and under load_documents the
\* failing file adds no unit and leaves the units already aggregated as
\* they were.
C6_NoPartialResults ==
    [][/\ (pc = "pdf_except" /\ caller = "top") => result' = Raised(exc)
       /\ (pc = "pdf_except" /\ caller = "dir") =>
             (pc' = "dir_catch" /\ all_documents' = all_documents)
       /\ (pc = "dir_catch") => (pc' = "dir_iter" /\ all_documents' = all_documents)
       /\ (pc' = "done" /\ op = "dir") =>
             \A i \in DOMAIN children : FailingPdf(children[i]) =>
                 \A u \in Units(result'.value) : u.meta.source # Name(children[i])
      ]_vars

\* Under load_documents a PDF failed at a page after units of earlier pages
\* were collected and units of an earlier file were aggregated.
C6_Witness ==
    /\ pc = "dir_catch" /\ op = "dir"
    /\ Lower(cur.ext) = PDF_EXT /\ exc = "RuntimeError"
    /\ documents # <<>>
    /\ all_documents # <<>>

WrongType == \/ op \in {"pdf", "txt"} /\ ~IsFile(arg)
             \/ op = "dir" /\ ~IsDir(arg)

\* C7: each entry point raises NotFound when its path does not exist or is
\* not of the expected type, whatever the suffix, and the check comes first:
\* nothing is opened and no directory entry is taken before it.
C7_NotFoundFirst ==
    /\ WrongType =>
          /\ pc \in {"pdf_check", "txt_check", "dir_check", "done"}
          /\ opened = <<>> /\ idx = 0
          /\ Finished => (result.status = "raised" /\ result.exc = "FileNotFoundError")
    /\ (pc = "dir_check" \/ (caller = "top" /\ pc \in {"pdf_check", "txt_check"})) =>
          (opened = <<>> /\ idx = 0)

\* A nonexistent path with a foreign suffix given to load_pdf_document.
C7_Witness ==
    /\ Finished /\ op = "pdf"
    /\ arg.kind = "missing" /\ arg.ext = TXT_EXT
    /\ result = Raised("FileNotFoundError")

\* C8: for an existing regular file, an extractor raises InvalidInput if and
\* only if the lower-cased suffix is not its own, and the file is never
\* opened when InvalidInput is raised.
C8_InvalidInputIffSuffix ==
    (Finished /\ op \in {"pdf", "txt"} /\ IsFile(arg)) =>
        LET invalid == result.status = "raised" /\ KindOf(result.exc) = "InvalidInput"
        IN /\ invalid <=> (Lower(arg.ext) # Want)
           /\ invalid => opened = <<>>

\* C9 as stated: a readable .txt file gives no unit when blank, and
\* otherwise exactly one unit whose text is the file content itself.
C9_TextIsFileContent ==
    (/\ Finished /\ op = "txt" /\ PreCheck(arg, TXT_EXT) = "ok"
     /\ arg.data.fmt = "text")
    =>
    /\ result.status = "returned"
    /\ result.value = IF NonBlank(arg.data.chars)
                      THEN <<[text |-> arg.data.chars, meta |-> [source |-> Name(arg)]]>>
                      ELSE <<>>

\* C9 (amended): a readable .txt file gives no unit when blank, and
\* otherwise exactly one unit whose text is the untrimmed content as text
\* mode delivers it, every "\r\n" and lone "\r" read as "\n" (the content
\* itself when it has no "\r"), with metadata {source} and no page key.
C9_TextIsContentAsRead ==
    (/\ Finished /\ op = "txt" /\ PreCheck(arg, TXT_EXT) = "ok"
     /\ arg.data.fmt = "text")
    =>
    LET chars == arg.data.chars
        v == result.value
    IN /\ result.status = "returned"
       /\ Len(v) <= 1
       /\ ~NonBlank(chars) => v = <<>>
       /\ NonBlank(chars) =>
             /\ Len(v) = 1
             /\ DOMAIN v[1].meta = {"source"}
             /\ v[1].meta.source = Name(arg)
             /\ v[1].text = ReadText(chars)
             /\ (\A i \in DOMAIN chars : chars[i] # CR) => v[1].text = chars
             /\ \A i \in DOMAIN v[1].text : v[1].text[i] # CR

\* A file with surrounding whitespace and a carriage return gave one unit.
C9_Witness ==
    /\ Finished /\ op = "txt" /\ result.status = "returned"
    /\ arg.data.chars = <<SP, "a", CR>>
    /\ Len(result.value) = 1

\* C10: a failure inside an extractor after its precondition checks passed
\* reaches the caller as a ParseFailure, a kind distinct from NotFound and
\* InvalidInput, after a log line naming the file and the cause.
C10_FailureIsParseFailure ==
    (/\ Finished /\ op \in {"pdf", "txt"}
     /\ PreCheck(arg, Want) = "ok"
     /\ arg.data.fmt \notin {"pdf", "text"} \/ \E i \in DOMAIN arg.data.pages : ~arg.data.pages[i].ok)
    =>
    /\ result.status = "raised"
    /\ KindOf(result.exc) = "ParseFailure"
    /\ log # <<>>
    /\ log[Len(log)].name = Name(arg)
    /\ log[Len(log)].cause = result.exc
====
